---- MODULE Spec2Model ----
(***************************************************************************)
(* maxmind-fetcher: the hot-swap database handle (LiveMaxMindDb) and the   *)
(* update synchronizer (MaxMindFetcher), modelled at the granularity of    *)
(* the JavaScript event loop: the code between two awaits is one atomic    *)
(* step, and every await is a point where other tasks may run.             *)
(*                                                                         *)
(* SpecHandle   the handle alone, #loadDb called with any buffer           *)
(* SpecFetcher  the fetcher alone, callbacks leaving the handle alone      *)
(* SpecTimer    the fetcher left running, every operation succeeding       *)
(* SpecLive     LiveMaxMindDb over its fetcher, from construction          *)
(***************************************************************************)
EXTENDS Integers, Sequences, FiniteSets, TLC

(***************************************************************************)
(* Bounds of the model.                                                    *)
(***************************************************************************)
\* calls of #loadDb (successful or failing) in one behaviour
MaxLoads == 3
\* concurrent callers of lookupCity / lookupPrefix
NumLookups == 2

(***************************************************************************)
(* Byte strings.  A buffer is a tagged value naming one byte string; two   *)
(* buffers are equal exactly when their bytes are.                         *)
(***************************************************************************)
Mmdb(n) == <<"mmdb", n>>
Junk == <<"junk", 0>>
LoadableBuffers == {Mmdb(1), Mmdb(2), Junk}

\* new Maxmind(dbBuffer) throws on bytes that are no database
MaxmindLoads(dbBuffer) == dbBuffer[1] = "mmdb"

(***************************************************************************)
(* State of LiveMaxMindDb.  Maxmind instances are named 1, 2, ... in the   *)
(* order they are constructed; NoDb is null.  A promise is named by what   *)
(* it is: InitialPromise is the promise made in the field initialiser,     *)
(* and n > 0 is Promise.resolve(instance n).                               *)
(***************************************************************************)
VARIABLES
    db,                     \* #db
    initialPromiseResolved, \* #initialPromiseResolved
    initialDbPromiseValue,  \* what the initial #dbPromise resolved to, NoDb while pending
    dbPromise,              \* #dbPromise
    pendingDbLookups,       \* #pendingDbLookups (get(db) || 0)
    discardedDbs,           \* #discardedDbs
    freeCalls,              \* number of db.free() calls made on each instance
    created,                \* number of Maxmind instances constructed
    loadCalls,              \* number of #loadDb calls
    freeThrew,              \* the step just taken, if db.free() threw in it: in #loadDb of
                            \* a loadable buffer, or in #useDb (how fn and #useDb settled)
    lookups                 \* the #useDb calls: where each one is

handleVars == <<db, initialPromiseResolved, initialDbPromiseValue, dbPromise,
                pendingDbLookups, discardedDbs, freeCalls, created, loadCalls,
                freeThrew, lookups>>

(***************************************************************************)
(* MaxMindFetcher.  Files hold a buffer or are NotFound.  A digest is the  *)
(* hex string of the SHA-256 of a buffer: equal for equal bytes, different *)
(* for the different byte strings of the model.                            *)
(***************************************************************************)
\* timer ticks after construction
MaxTicks == 1
\* #updateDb executions the model can hold at once
MaxCycles == 2
\* concurrent callers of getDbBuffer
NumReaders == 1

TIME_CHECK_UPDATE_INTERVAL_MS == 10 * 60 * 1000
HASH_CHECK_UPDATE_INTERVAL_MS == 60 * 60 * 1000
\* Date.now() when the fetcher is constructed
StartNow == 2 * HASH_CHECK_UPDATE_INTERVAL_MS

NotFound == <<"NotFound", 0>>
Null == <<"null", 0>>
NaN == <<"NaN", 0>>
Number(n) == <<"number", n>>
Threw == <<"threw", 0>>
Targz(n) == <<"targz", n>>

\* getSha256FromBuffer
GetSha256FromBuffer(buffer) == <<"sha256", buffer>>
EmptyString == <<"", Null>>
NullSha == <<"null", Null>>

\* the entries of the tar stream of a downloaded archive
TarEntries(tarBuffer) ==
    IF tarBuffer = Targz(1)
    THEN << [path |-> [stem |-> "COPYRIGHT", ext |-> "txt"], data |-> Junk],
            [path |-> [stem |-> "GeoLite2-Country", ext |-> "mmdb"], data |-> Mmdb(2)] >>
    ELSE << [path |-> [stem |-> "GeoLite2-Country", ext |-> "csv"], data |-> Junk] >>

RemoteArchives == {Targz(1), Targz(2)}

\* bodies the digest endpoint may answer with, as tokens separated by spaces:
\* nothing, or the digest of one of the byte strings of the model and a name
HashTexts ==
    {<<>>} \cup
    {<<GetSha256FromBuffer(b), "GeoLite2-Country.tar.gz">> :
        b \in RemoteArchives \cup {Mmdb(1), Mmdb(2)}}

\* contents of lastChecked.txt: String(n) for a number n, or text with a
\* character that is no digit
Digits(n) == <<"digits", n>>
Garbage == <<"garbage", 0>>

CycleIds == 1..MaxCycles
ReaderIds == 1..NumReaders
Subscribers == {"cb"}

VARIABLES
    now,                  \* Date.now()
    ignoreNetworkErrors,  \* #ignoreNetworkErrors
    lastCheckedFile,      \* lastChecked.txt
    dbFile,               \* db.mmdb
    tempFile,             \* tempDb.mmdb
    rewritePromise,       \* #rewritePromise: 0 is null, n > 0 the n-th promise made
    rewritesOpened,       \* number of rewrite promises made
    rewritesResolved,     \* the rewrite promises that have been resolved
    updateIsRunning,      \* #updateIsRunning
    cycles,               \* the #updateDb executions: locals and position
    onDbChangeCbs,        \* #onDbChangeCbs
    notifications,        \* the callback calls made, in order
    readers               \* the getDbBuffer calls: where each one is

fetcherVars == <<now, ignoreNetworkErrors, lastCheckedFile, dbFile, tempFile,
                 rewritePromise, rewritesOpened, rewritesResolved, updateIsRunning,
                 cycles, onDbChangeCbs, notifications, readers>>

vars == <<handleVars, fetcherVars>>

(***************************************************************************)
(* LiveMaxMindDb: #loadDb and #useDb                                       *)
(***************************************************************************)
NoDb == 0
InitialPromise == 0
Dbs == 1..MaxLoads
LookupIds == 1..NumLookups

IdleLookup == [pc |-> "idle", promise |-> InitialPromise, db |-> NoDb,
               dbAtCall |-> NoDb, freedAtStart |-> FALSE]

\* how fn(db) settles
FnOutcomes == {"returned", "threw"}

\* the value of freeThrew when db.free() did not throw in the step just taken
NoThrow == [in |-> "none", fn |-> "none", result |-> "none"]

\* the value a promise has resolved to, NoDb while it is pending
PromiseValue(p) == IF p = InitialPromise THEN initialDbPromiseValue ELSE p

HandleInit ==
    /\ db = NoDb
    /\ initialPromiseResolved = FALSE
    /\ initialDbPromiseValue = NoDb
    /\ dbPromise = InitialPromise
    /\ pendingDbLookups = [d \in Dbs |-> 0]
    /\ discardedDbs = {}
    /\ freeCalls = [d \in Dbs |-> 0]
    /\ created = 0
    /\ loadCalls = 0
    /\ freeThrew = NoThrow
    /\ lookups = [l \in LookupIds |-> IdleLookup]

\* #tryFreeDb: db.free() is called; what it throws is caught and logged.
\* thrown tells whether #tryFreeDb itself throws.
FreeDbUncaught(fc, d, freeThrows) ==
    [freeCalls |-> [fc EXCEPT ![d] = @ + 1], thrown |-> freeThrows]

TryFreeDb(fc, d, freeThrows) ==
    [freeCalls |-> [fc EXCEPT ![d] = @ + 1], thrown |-> FALSE]

\* #loadDb, first half: the previous instance is retired or freed
LoadDbRetireFreeAlways(cur, pend, disc, fc, freeThrows) ==
    IF cur = NoDb
    THEN [discardedDbs |-> disc, freeCalls |-> fc, thrown |-> FALSE, freed |-> FALSE]
    ELSE LET f == TryFreeDb(fc, cur, freeThrows)
         IN  [discardedDbs |-> disc, freeCalls |-> f.freeCalls,
              thrown |-> f.thrown, freed |-> TRUE]

LoadDbRetire(cur, pend, disc, fc, freeThrows) ==
    IF cur = NoDb
    THEN [discardedDbs |-> disc, freeCalls |-> fc, thrown |-> FALSE, freed |-> FALSE]
    ELSE IF pend[cur] > 0
         THEN [discardedDbs |-> disc \cup {cur}, freeCalls |-> fc,
               thrown |-> FALSE, freed |-> FALSE]
         ELSE LET f == TryFreeDb(fc, cur, freeThrows)
              IN  [discardedDbs |-> disc, freeCalls |-> f.freeCalls,
                   thrown |-> f.thrown, freed |-> TRUE]

\* #loadDb, second half: the new instance is published
LoadDbPublishKeepsPromise(new, resolved, initialValue, promise) ==
    IF ~resolved
    THEN [initialPromiseResolved |-> TRUE, initialDbPromiseValue |-> new,
          dbPromise |-> promise]
    ELSE [initialPromiseResolved |-> TRUE, initialDbPromiseValue |-> initialValue,
          dbPromise |-> promise]

LoadDbPublish(new, resolved, initialValue, promise) ==
    IF ~resolved
    THEN [initialPromiseResolved |-> TRUE, initialDbPromiseValue |-> new,
          dbPromise |-> promise]
    ELSE [initialPromiseResolved |-> TRUE, initialDbPromiseValue |-> initialValue,
          dbPromise |-> new]

\* #loadDb(dbBuffer); freeThrows tells whether a db.free() made by this call
\* throws.  When #tryFreeDb or new Maxmind(dbBuffer) throws, the call ends
\* there: the previous instance has been retired or freed and is still #db.
LoadDb(dbBuffer, freeThrows) ==
    /\ loadCalls < MaxLoads
    /\ loadCalls' = loadCalls + 1
    /\ LET r == LoadDbRetire(db, pendingDbLookups, discardedDbs, freeCalls, freeThrows)
       IN  /\ discardedDbs' = r.discardedDbs
           /\ freeCalls' = r.freeCalls
           /\ freeThrew' = IF r.freed /\ freeThrows /\ MaxmindLoads(dbBuffer)
                           THEN [NoThrow EXCEPT !.in = "loadDb"]
                           ELSE NoThrow
           /\ IF ~r.thrown /\ MaxmindLoads(dbBuffer)
              THEN LET new == created + 1
                       p == LoadDbPublish(new, initialPromiseResolved,
                                          initialDbPromiseValue, dbPromise)
                   IN  /\ created' = new
                       /\ db' = new
                       /\ initialPromiseResolved' = p.initialPromiseResolved
                       /\ initialDbPromiseValue' = p.initialDbPromiseValue
                       /\ dbPromise' = p.dbPromise
              ELSE UNCHANGED <<created, db, initialPromiseResolved,
                               initialDbPromiseValue, dbPromise>>
    /\ UNCHANGED <<pendingDbLookups, lookups>>

\* #loadDb called on a handle taken alone
CallLoadDb(dbBuffer, freeThrows) ==
    /\ LoadDb(dbBuffer, freeThrows)
    /\ UNCHANGED fetcherVars

\* lookupCity / lookupPrefix -> #useDb up to `await this.#dbPromise`
UseDbCall(l) ==
    /\ lookups[l].pc = "idle"
    /\ lookups' = [lookups EXCEPT ![l] =
            [IdleLookup EXCEPT !.pc = "awaiting", !.promise = dbPromise,
                               !.dbAtCall = db]]
    /\ freeThrew' = NoThrow
    /\ UNCHANGED <<db, initialPromiseResolved, initialDbPromiseValue, dbPromise,
                   pendingDbLookups, discardedDbs, freeCalls, created, loadCalls,
                   fetcherVars>>

\* the instance #useDb works on once the awaited promise has resolved
UseDbResolved(l) == PromiseValue(lookups[l].promise)

\* #useDb resumes with the promise's value, counts itself and calls fn(db)
UseDbStart(l) ==
    /\ lookups[l].pc = "awaiting"
    /\ PromiseValue(lookups[l].promise) # NoDb
    /\ LET d == UseDbResolved(l)
       IN  /\ pendingDbLookups' = [pendingDbLookups EXCEPT ![d] = @ + 1]
           /\ lookups' = [lookups EXCEPT ![l] =
                [@ EXCEPT !.pc = "running", !.db = d,
                          !.freedAtStart = freeCalls[d] > 0]]
    /\ freeThrew' = NoThrow
    /\ UNCHANGED <<db, initialPromiseResolved, initialDbPromiseValue, dbPromise,
                   discardedDbs, freeCalls, created, loadCalls, fetcherVars>>

\* the finally block of #useDb
UseDbFinallyNeverFrees(d, pend, disc, fc, freeThrows) ==
    [pendingDbLookups |-> [pend EXCEPT ![d] = @ - 1],
     discardedDbs |-> disc, freeCalls |-> fc, thrown |-> FALSE, freed |-> FALSE]

UseDbFinally(d, pend, disc, fc, freeThrows) ==
    LET newPending == pend[d] - 1
    IN  IF newPending <= 0 /\ d \in disc
        THEN LET f == TryFreeDb(fc, d, freeThrows)
             IN  [pendingDbLookups |-> [pend EXCEPT ![d] = newPending],
                  discardedDbs |-> IF f.thrown THEN disc ELSE disc \ {d},
                  freeCalls |-> f.freeCalls, thrown |-> f.thrown, freed |-> TRUE]
        ELSE [pendingDbLookups |-> [pend EXCEPT ![d] = newPending],
              discardedDbs |-> disc, freeCalls |-> fc,
              thrown |-> FALSE, freed |-> FALSE]

\* fn(db) settles as fn (it returns or throws) and the finally block runs;
\* what the finally block throws replaces the outcome of fn
UseDbFinish(l, fn, freeThrows) ==
    /\ lookups[l].pc = "running"
    /\ LET r == UseDbFinally(lookups[l].db, pendingDbLookups, discardedDbs,
                             freeCalls, freeThrows)
       IN  /\ pendingDbLookups' = r.pendingDbLookups
           /\ discardedDbs' = r.discardedDbs
           /\ freeCalls' = r.freeCalls
           /\ freeThrew' = IF r.freed /\ freeThrows
                           THEN [in |-> "useDb", fn |-> fn,
                                 result |-> IF r.thrown THEN "freeError" ELSE fn]
                           ELSE NoThrow
    /\ lookups' = [lookups EXCEPT ![l] = IdleLookup]
    /\ UNCHANGED <<db, initialPromiseResolved, initialDbPromiseValue, dbPromise,
                   created, loadCalls, fetcherVars>>

(***************************************************************************)
(* MaxMindFetcher: the check cycle, the replace of db.mmdb and its readers *)
(***************************************************************************)
NoOutcome == [kind |-> "none", entryNames |-> <<>>]
Outcome(kind) == [kind |-> kind, entryNames |-> <<>>]

IdleCycle ==
    [pc |-> "idle", lastChecked |-> NaN, localSha256 |-> NullSha,
     serverSha256 |-> NullSha, tarBuffer |-> Null, dbBuffer |-> Null,
     rewrite |-> 0, writeValue |-> 0,
     startedAt |-> 0, dbAtStart |-> NotFound, lastCheckedAtStart |-> NotFound,
     fetched |-> FALSE, downloadRequested |-> FALSE, windowOpened |-> FALSE,
     notified |-> 0, outcome |-> NoOutcome]

\* #updateDb, called at time t, up to its first await
StartedCycle(t) ==
    [IdleCycle EXCEPT !.pc = "readLastChecked", !.startedAt = t,
                      !.dbAtStart = dbFile, !.lastCheckedAtStart = lastCheckedFile]

IdleReader == [pc |-> "idle", awaited |-> 0, existed |-> FALSE, result |-> Null]

InFlight(c) == cycles[c].pc # "idle"

\* the state after `new MaxMindFetcher(options)`: the first cycle is waiting
\* for lastChecked.txt
FetcherInit ==
    /\ now = StartNow
    /\ ignoreNetworkErrors \in BOOLEAN
    /\ lastCheckedFile \in {NotFound, Garbage, Digits(0),
                            Digits(StartNow - HASH_CHECK_UPDATE_INTERVAL_MS)}
    /\ dbFile \in {NotFound, Mmdb(1)}
    /\ tempFile = NotFound
    /\ rewritePromise = 0
    /\ rewritesOpened = 0
    /\ rewritesResolved = {}
    /\ updateIsRunning = TRUE
    /\ cycles = [c \in CycleIds |-> IF c = 1 THEN StartedCycle(StartNow) ELSE IdleCycle]
    /\ onDbChangeCbs = {}
    /\ notifications = <<>>
    /\ readers = [r \in ReaderIds |-> IdleReader]

\* the guard of #updateDbIfNotRunning
GuardAbsent == FALSE

UpdateIsRunningGuard == updateIsRunning

\* #updateDbIfNotRunning, called by the interval timer
UpdateDbIfNotRunning ==
    IF UpdateIsRunningGuard
    THEN UNCHANGED <<updateIsRunning, cycles>>
    ELSE /\ \E c \in CycleIds :
            /\ ~InFlight(c)
            /\ \A e \in CycleIds : e < c => InFlight(e)
            /\ cycles' = [cycles EXCEPT ![c] = StartedCycle(now')]
         /\ updateIsRunning' = TRUE

\* the setInterval callback, TIME_CHECK_UPDATE_INTERVAL_MS after the last one
Tick ==
    /\ now < StartNow + MaxTicks * TIME_CHECK_UPDATE_INTERVAL_MS
    /\ now' = now + TIME_CHECK_UPDATE_INTERVAL_MS
    /\ UpdateDbIfNotRunning
    /\ UNCHANGED <<ignoreNetworkErrors, lastCheckedFile, dbFile, tempFile,
                   rewritePromise, rewritesOpened, rewritesResolved,
                   onDbChangeCbs, notifications, readers, handleVars>>

\* #updateDb ends (it returns or throws) and the finally block of
\* #updateDbIfNotRunning runs
EndCycleClearsOnReturn(c, rec, outcome) ==
    /\ cycles' = [cycles EXCEPT ![c] = [rec EXCEPT !.pc = "idle", !.outcome = outcome]]
    /\ updateIsRunning' = (outcome.kind \notin {"ok", "aborted"})

EndCycle(c, rec, outcome) ==
    /\ cycles' = [cycles EXCEPT ![c] = [rec EXCEPT !.pc = "idle", !.outcome = outcome]]
    /\ updateIsRunning' = FALSE

\* lastCheckedStr trimmed, reset when it holds a non-digit, then parseInt
ParseLastChecked(content) ==
    IF content[1] = "digits" THEN Number(content[2]) ELSE NaN

\* String(Date.now())
DateNowString(t) == Digits(t)

\* isNaN(lastChecked) || Date.now() - lastChecked > HASH_CHECK_UPDATE_INTERVAL_MS
HashCheckDueAtInterval(lastChecked, t) ==
    \/ lastChecked = NaN
    \/ (lastChecked # NaN /\ t - lastChecked[2] >= HASH_CHECK_UPDATE_INTERVAL_MS)

HashCheckDue(lastChecked, t) ==
    \/ lastChecked = NaN
    \/ (lastChecked # NaN /\ t - lastChecked[2] > HASH_CHECK_UPDATE_INTERVAL_MS)

\* hashText.split(" ")[0] || ""
FirstToken(hashText) == IF Len(hashText) = 0 THEN EmptyString ELSE hashText[1]

\* serverSha256 && serverSha256 != localSha256
DownloadWhenFetched(serverSha256, localSha256) ==
    serverSha256 # NullSha /\ serverSha256 # EmptyString

NeedsDownload(serverSha256, localSha256) ==
    serverSha256 # NullSha /\ serverSha256 # EmptyString /\ serverSha256 # localSha256

\* sha256 != serverSha256 is the verification failure
VerificationSkipped(sha256, serverSha256) == TRUE

Verified(sha256, serverSha256) == sha256 = serverSha256

\* the loop over the tar entries: the data of the last .mmdb entry, or Null
ExtractLastEntry(entries) ==
    IF Len(entries) = 0 THEN Null ELSE entries[Len(entries)].data

RECURSIVE ExtractMmdb(_)
ExtractMmdb(entries) ==
    IF Len(entries) = 0 THEN Null
    ELSE LET last == entries[Len(entries)]
         IN  IF last.path.ext = "mmdb" THEN last.data
             ELSE ExtractMmdb(SubSeq(entries, 1, Len(entries) - 1))

EntryNames(entries) == [i \in 1..Len(entries) |-> entries[i].path]

\* line 256, up to the await: the write of String(Date.now()) is issued
IssueWriteLastChecked(c, rec) ==
    cycles' = [cycles EXCEPT ![c] = [rec EXCEPT !.pc = "writeLastChecked",
                                                !.writeValue = now]]

\* Deno.readTextFile(lastChecked.txt) settles
ReadLastCheckedDone(c, ioError) ==
    /\ cycles[c].pc = "readLastChecked"
    /\ IF ioError
       THEN EndCycle(c, cycles[c], Outcome("FilesystemError"))
       ELSE /\ cycles' = [cycles EXCEPT ![c] =
                    [@ EXCEPT !.pc = "readDb",
                              !.lastChecked = ParseLastChecked(lastCheckedFile)]]
            /\ UNCHANGED updateIsRunning
    /\ UNCHANGED <<now, ignoreNetworkErrors, lastCheckedFile, dbFile, tempFile,
                   rewritePromise, rewritesOpened, rewritesResolved,
                   onDbChangeCbs, notifications, readers, handleVars>>

\* Deno.readFile(db.mmdb) settles; the local digest is computed and the
\* hash check is started when it is due
ReadDbDone(c, ioError) ==
    /\ cycles[c].pc = "readDb"
    /\ IF ioError
       THEN EndCycle(c, cycles[c], Outcome("FilesystemError"))
       ELSE LET rec == [cycles[c] EXCEPT !.localSha256 =
                            IF dbFile = NotFound THEN NullSha
                            ELSE GetSha256FromBuffer(dbFile)]
            IN  /\ IF HashCheckDue(rec.lastChecked, now)
                   THEN cycles' = [cycles EXCEPT ![c] = [rec EXCEPT !.pc = "fetchSha"]]
                   ELSE IssueWriteLastChecked(c, rec)
                /\ UNCHANGED updateIsRunning
    /\ UNCHANGED <<now, ignoreNetworkErrors, lastCheckedFile, dbFile, tempFile,
                   rewritePromise, rewritesOpened, rewritesResolved,
                   onDbChangeCbs, notifications, readers, handleVars>>

\* the request for "tar.gz.sha256" settles
FetchShaDone(c, ok, hashText) ==
    /\ cycles[c].pc = "fetchSha"
    /\ IF ~ok
       THEN IF ignoreNetworkErrors
            THEN EndCycle(c, cycles[c], Outcome("aborted"))
            ELSE EndCycle(c, cycles[c], Outcome("NetworkError"))
       ELSE LET rec == [cycles[c] EXCEPT !.serverSha256 = FirstToken(hashText),
                                         !.fetched = TRUE]
            IN  /\ IF NeedsDownload(rec.serverSha256, rec.localSha256)
                   THEN cycles' = [cycles EXCEPT ![c] =
                            [rec EXCEPT !.pc = "download", !.downloadRequested = TRUE]]
                   ELSE IssueWriteLastChecked(c, rec)
                /\ UNCHANGED updateIsRunning
    /\ UNCHANGED <<now, ignoreNetworkErrors, lastCheckedFile, dbFile, tempFile,
                   rewritePromise, rewritesOpened, rewritesResolved,
                   onDbChangeCbs, notifications, readers, handleVars>>

\* the request for "tar.gz" settles; the downloaded bytes are verified
DownloadDone(c, ok, tarBuffer) ==
    /\ cycles[c].pc = "download"
    /\ IF ~ok
       THEN EndCycle(c, cycles[c], Outcome("NetworkError"))
       ELSE LET rec == [cycles[c] EXCEPT !.tarBuffer = tarBuffer]
            IN  IF ~Verified(GetSha256FromBuffer(tarBuffer), rec.serverSha256)
                THEN EndCycle(c, rec, Outcome("IntegrityError"))
                ELSE /\ cycles' = [cycles EXCEPT ![c] = [rec EXCEPT !.pc = "extract"]]
                     /\ UNCHANGED updateIsRunning
    /\ UNCHANGED <<now, ignoreNetworkErrors, lastCheckedFile, dbFile, tempFile,
                   rewritePromise, rewritesOpened, rewritesResolved,
                   onDbChangeCbs, notifications, readers, handleVars>>

\* the tar stream has been read to its end: the .mmdb entry is in
\* tempDb.mmdb and in memory, the rewrite promise is made and Deno.remove
\* is issued.  The file operations of the loop (Deno.create, pipeTo) are
\* made for an .mmdb entry only.
ExtractDone(c, ioError) ==
    /\ cycles[c].pc = "extract"
    /\ ioError => ExtractMmdb(TarEntries(cycles[c].tarBuffer)) # Null
    /\ LET entries == TarEntries(cycles[c].tarBuffer)
           dbBuffer == ExtractMmdb(entries)
       IN  IF ioError
           THEN /\ EndCycle(c, cycles[c], Outcome("FilesystemError"))
                /\ UNCHANGED <<tempFile, rewritePromise, rewritesOpened>>
           ELSE IF dbBuffer = Null
                THEN /\ EndCycle(c, cycles[c],
                            [kind |-> "FormatError", entryNames |-> EntryNames(entries)])
                     /\ UNCHANGED <<tempFile, rewritePromise, rewritesOpened>>
                ELSE /\ tempFile' = dbBuffer
                     /\ rewritesOpened' = rewritesOpened + 1
                     /\ rewritePromise' = rewritesOpened + 1
                     /\ cycles' = [cycles EXCEPT ![c] =
                            [@ EXCEPT !.pc = "remove", !.dbBuffer = dbBuffer,
                                      !.rewrite = rewritesOpened + 1,
                                      !.windowOpened = TRUE]]
                     /\ UNCHANGED updateIsRunning
    /\ UNCHANGED <<now, ignoreNetworkErrors, lastCheckedFile, dbFile,
                   rewritesResolved, onDbChangeCbs, notifications, readers, handleVars>>

\* the finally block of the replace: resolveRewritePromise() and
\* this.#rewritePromise = null
FinallyOnSuccessOnly(failed, rewrite, promise, resolved) ==
    IF failed
    THEN [rewritePromise |-> promise, rewritesResolved |-> resolved]
    ELSE [rewritePromise |-> 0, rewritesResolved |-> resolved \cup {rewrite}]

FinallyCloseWindow(failed, rewrite, promise, resolved) ==
    [rewritePromise |-> 0, rewritesResolved |-> resolved \cup {rewrite}]

\* Deno.remove(db.mmdb) settles: NotFound is tolerated, another failure is
\* thrown through the finally block
RemoveDone(c, ioError) ==
    /\ cycles[c].pc = "remove"
    /\ IF ioError
       THEN LET f == FinallyCloseWindow(TRUE, cycles[c].rewrite,
                                        rewritePromise, rewritesResolved)
            IN  /\ rewritePromise' = f.rewritePromise
                /\ rewritesResolved' = f.rewritesResolved
                /\ EndCycle(c, cycles[c], Outcome("FilesystemError"))
                /\ UNCHANGED dbFile
       ELSE /\ dbFile' = NotFound
            /\ cycles' = [cycles EXCEPT ![c] = [@ EXCEPT !.pc = "rename"]]
            /\ UNCHANGED <<rewritePromise, rewritesResolved, updateIsRunning>>
    /\ UNCHANGED <<now, ignoreNetworkErrors, lastCheckedFile, tempFile,
                   rewritesOpened, onDbChangeCbs, notifications, readers, handleVars>>

\* the calls #onDbChangeCbs.forEach makes, appended to the log; each entry
\* also records db.mmdb and #rewritePromise as the callback finds them
RECURSIVE NotifyAll(_, _, _)
NotifyAll(cbs, data, log) ==
    IF cbs = {} THEN log
    ELSE LET cb == CHOOSE x \in cbs : TRUE
         IN  NotifyAll(cbs \ {cb}, data,
                       Append(log, [cb |-> cb, sha256 |-> data.sha256,
                                    buffer |-> data.buffer, dbFile |-> data.dbFile,
                                    rewritePromise |-> data.rewritePromise]))

\* lines 230-253: a failure of the replace is thrown out of #updateDb past
\* the forEach, so the subscribers are called only when it succeeded
NotifyWhateverTheReplace(failed, cbs, data, log) == NotifyAll(cbs, data, log)

NotifyAfterReplace(failed, cbs, data, log) ==
    IF failed THEN log ELSE NotifyAll(cbs, data, log)

\* Deno.rename(tempDb.mmdb, db.mmdb) settles; the finally block runs, then
\* the subscribers are called and the write of lastChecked.txt is issued.
\* A callback that throws ends forEach and #updateDb with what it threw.
RenameSettles(c, ioError, cbThrows) ==
    /\ cycles[c].pc = "rename"
    /\ cbThrows => (~ioError /\ onDbChangeCbs # {})
    /\ LET f == FinallyCloseWindow(ioError, cycles[c].rewrite,
                                   rewritePromise, rewritesResolved)
       IN  /\ rewritePromise' = f.rewritePromise
           /\ rewritesResolved' = f.rewritesResolved
    /\ dbFile' = IF ioError THEN dbFile ELSE tempFile
    /\ tempFile' = IF ioError THEN tempFile ELSE NotFound
    /\ notifications' =
            NotifyAfterReplace(ioError, onDbChangeCbs,
                               [sha256 |-> cycles[c].serverSha256,
                                buffer |-> cycles[c].dbBuffer, dbFile |-> dbFile',
                                rewritePromise |-> rewritePromise'],
                               notifications)
    /\ LET rec == [cycles[c] EXCEPT !.notified = Len(notifications') - Len(notifications)]
       IN  IF ioError
           THEN EndCycle(c, rec, Outcome("FilesystemError"))
           ELSE IF cbThrows
                THEN EndCycle(c, rec, Outcome("CallbackError"))
                ELSE /\ IssueWriteLastChecked(c, rec)
                     /\ UNCHANGED updateIsRunning
    /\ UNCHANGED <<now, ignoreNetworkErrors, lastCheckedFile,
                   rewritesOpened, onDbChangeCbs, readers>>

\* the same, with callbacks that leave the handle alone
RenameDone(c, ioError, cbThrows) ==
    /\ RenameSettles(c, ioError, cbThrows)
    /\ UNCHANGED handleVars

\* Deno.writeTextFile(lastChecked.txt) settles
WriteLastCheckedDone(c, ioError) ==
    /\ cycles[c].pc = "writeLastChecked"
    /\ IF ioError
       THEN /\ EndCycle(c, cycles[c], Outcome("FilesystemError"))
            /\ UNCHANGED lastCheckedFile
       ELSE /\ lastCheckedFile' = DateNowString(cycles[c].writeValue)
            /\ EndCycle(c, cycles[c], Outcome("ok"))
    /\ UNCHANGED <<now, ignoreNetworkErrors, dbFile, tempFile,
                   rewritePromise, rewritesOpened, rewritesResolved,
                   onDbChangeCbs, notifications, readers, handleVars>>

\* onDbChange(cb)
OnDbChange(cb) ==
    /\ cb \notin onDbChangeCbs
    /\ onDbChangeCbs' = onDbChangeCbs \cup {cb}
    /\ UNCHANGED <<now, ignoreNetworkErrors, lastCheckedFile, dbFile, tempFile,
                   rewritePromise, rewritesOpened, rewritesResolved, updateIsRunning,
                   cycles, notifications, readers, handleVars>>

\* a replace has removed the artifact that was there and not yet renamed
\* the new one into place
ReplaceUnderWay ==
    \E c \in CycleIds : cycles[c].pc = "rename" /\ cycles[c].dbAtStart # NotFound

\* getDbBuffer up to `await this.#rewritePromise`
CalledReader ==
    [pc |-> "gate", awaited |-> rewritePromise,
     existed |-> (dbFile # NotFound \/ ReplaceUnderWay), result |-> Null]

GetDbBufferCall(r) ==
    /\ readers[r].pc = "idle"
    /\ readers' = [readers EXCEPT ![r] = CalledReader]
    /\ UNCHANGED <<now, ignoreNetworkErrors, lastCheckedFile, dbFile, tempFile,
                   rewritePromise, rewritesOpened, rewritesResolved, updateIsRunning,
                   cycles, onDbChangeCbs, notifications, handleVars>>

\* the awaited value has settled (null at once): Deno.readFile is issued
GetDbBufferPassGate(r) ==
    /\ readers[r].pc = "gate"
    /\ readers[r].awaited = 0 \/ readers[r].awaited \in rewritesResolved
    /\ readers' = [readers EXCEPT ![r] = [@ EXCEPT !.pc = "reading"]]
    /\ UNCHANGED <<now, ignoreNetworkErrors, lastCheckedFile, dbFile, tempFile,
                   rewritePromise, rewritesOpened, rewritesResolved, updateIsRunning,
                   cycles, onDbChangeCbs, notifications, handleVars>>

\* what getDbBuffer returns for what Deno.readFile finds
GetDbBufferResult(ioError) ==
    IF ioError THEN Threw ELSE IF dbFile = NotFound THEN Null ELSE dbFile

\* Deno.readFile(db.mmdb) settles: the buffer, null for NotFound, or throw
GetDbBufferReadDone(r, ioError) ==
    /\ readers[r].pc = "reading"
    /\ readers' = [readers EXCEPT ![r] =
            [IdleReader EXCEPT !.result = GetDbBufferResult(ioError)]]
    /\ UNCHANGED <<now, ignoreNetworkErrors, lastCheckedFile, dbFile, tempFile,
                   rewritePromise, rewritesOpened, rewritesResolved, updateIsRunning,
                   cycles, onDbChangeCbs, notifications, handleVars>>

CycleStep(c) ==
    \/ \E e \in BOOLEAN : ReadLastCheckedDone(c, e)
    \/ \E e \in BOOLEAN : ReadDbDone(c, e)
    \/ \E ok \in BOOLEAN, t \in HashTexts : FetchShaDone(c, ok, t)
    \/ \E ok \in BOOLEAN, b \in RemoteArchives : DownloadDone(c, ok, b)
    \/ \E e \in BOOLEAN : ExtractDone(c, e)
    \/ \E e \in BOOLEAN : RemoveDone(c, e)
    \/ \E e \in BOOLEAN, t \in BOOLEAN : RenameDone(c, e, t)
    \/ \E e \in BOOLEAN : WriteLastCheckedDone(c, e)

FetcherNext ==
    \/ Tick
    \/ \E c \in CycleIds : CycleStep(c)
    \/ \E cb \in Subscribers : OnDbChange(cb)
    \/ \E r \in ReaderIds : GetDbBufferCall(r)
    \/ \E r \in ReaderIds : GetDbBufferPassGate(r)
    \/ \E r \in ReaderIds, e \in BOOLEAN : GetDbBufferReadDone(r, e)

\* the fetcher, with no LiveMaxMindDb on top of it
FetcherAloneInit == HandleInit /\ FetcherInit

SpecFetcher == FetcherAloneInit /\ [][FetcherNext]_vars

\* every issued file or network operation settles, and a settled await resumes
FetcherFairness ==
    /\ \A c \in CycleIds : WF_vars(CycleStep(c))
    /\ \A r \in ReaderIds :
        /\ WF_vars(GetDbBufferPassGate(r))
        /\ WF_vars(\E e \in BOOLEAN : GetDbBufferReadDone(r, e))

FairSpecFetcher == SpecFetcher /\ FetcherFairness

(***************************************************************************)
(* The fetcher left running: the timer never stops, every operation        *)
(* succeeds and every cycle has ended when the next tick comes.            *)
(* Date.now() enters the code in the difference of line 148 and as the     *)
(* value written at line 256 only, so the tick that moves the clock        *)
(* forward by the interval is modelled as the tick that moves every stored *)
(* time back by it; StartNow is two intervals of the hash check, and a     *)
(* time that far back or further is kept as that far back (the gate tells  *)
(* no two of them apart).                                                  *)
(***************************************************************************)
Earlier(t) ==
    IF t < TIME_CHECK_UPDATE_INTERVAL_MS THEN 0 ELSE t - TIME_CHECK_UPDATE_INTERVAL_MS

EarlierContent(content) ==
    IF content[1] = "digits" THEN Digits(Earlier(content[2])) ELSE content

EarlierCycle(rec) ==
    [rec EXCEPT !.lastChecked = IF @ = NaN THEN NaN ELSE Number(Earlier(@[2])),
                !.lastCheckedAtStart = EarlierContent(@),
                !.startedAt = Earlier(@),
                !.writeValue = Earlier(@)]

\* the setInterval callback when no cycle is running: #updateDbIfNotRunning
\* starts one
TimerTick ==
    /\ ~UpdateIsRunningGuard
    /\ lastCheckedFile' = EarlierContent(lastCheckedFile)
    /\ updateIsRunning' = TRUE
    /\ cycles' = [c \in CycleIds |->
            IF c = 1
            THEN [StartedCycle(now) EXCEPT !.lastCheckedAtStart = lastCheckedFile']
            ELSE EarlierCycle(cycles[c])]
    /\ UNCHANGED <<now, ignoreNetworkErrors, dbFile, tempFile,
                   rewritePromise, rewritesOpened, rewritesResolved,
                   onDbChangeCbs, notifications, readers, handleVars>>

\* what the server holds while the fetcher runs
ServedArchive == Targz(1)
ServedHashText == <<GetSha256FromBuffer(ServedArchive), "GeoLite2-Country.tar.gz">>

TimerNext ==
    \/ TimerTick
    \/ \E c \in CycleIds : ReadLastCheckedDone(c, FALSE)
    \/ \E c \in CycleIds : ReadDbDone(c, FALSE)
    \/ \E c \in CycleIds : FetchShaDone(c, TRUE, ServedHashText)
    \/ \E c \in CycleIds : DownloadDone(c, TRUE, ServedArchive)
    \/ \E c \in CycleIds : ExtractDone(c, FALSE)
    \/ \E c \in CycleIds : RemoveDone(c, FALSE)
    \/ \E c \in CycleIds : RenameDone(c, FALSE, FALSE)
    \/ \E c \in CycleIds : WriteLastCheckedDone(c, FALSE)
    \/ \E cb \in Subscribers : OnDbChange(cb)

SpecTimer == FetcherAloneInit /\ [][TimerNext]_vars

\* the timer fires, and every issued operation settles
TimerFairness ==
    /\ WF_vars(TimerTick)
    /\ \A c \in CycleIds :
        /\ WF_vars(ReadLastCheckedDone(c, FALSE))
        /\ WF_vars(ReadDbDone(c, FALSE))
        /\ WF_vars(FetchShaDone(c, TRUE, ServedHashText))
        /\ WF_vars(DownloadDone(c, TRUE, ServedArchive))
        /\ WF_vars(ExtractDone(c, FALSE))
        /\ WF_vars(RemoveDone(c, FALSE))
        /\ WF_vars(RenameDone(c, FALSE, FALSE))
        /\ WF_vars(WriteLastCheckedDone(c, FALSE))

FairSpecTimer == SpecTimer /\ TimerFairness

(***************************************************************************)
(* LiveMaxMindDb over its fetcher: #init registers the callback that calls *)
(* #loadDb and reads the buffer on disk.  The state after                  *)
(* `new LiveMaxMindDb(options)` has the fetcher constructed, its first     *)
(* cycle waiting for lastChecked.txt, and #init waiting to be resumed with *)
(* the fetcher; that resumption is a microtask, and runs before the        *)
(* completion of any file or network operation or timer is delivered.      *)
(***************************************************************************)
\* the getDbBuffer call of #init
InitReader == 1

\* the callers of lookupCity / lookupPrefix while #init is under way: one is
\* enough for an instance to be retired instead of freed
LiveLookupIds == {1}

\* #init has been resumed with the fetcher
InitResumed == onDbChangeCbs # {}

LiveInit ==
    /\ HandleInit
    /\ FetcherInit
    /\ ~ignoreNetworkErrors
    /\ lastCheckedFile \in {NotFound, Digits(StartNow - HASH_CHECK_UPDATE_INTERVAL_MS)}

\* #init, lines 49-52: onDbChange(cb), then getDbBuffer() up to its await
InitSubscribes ==
    /\ ~InitResumed
    /\ readers[InitReader].pc = "idle"
    /\ onDbChangeCbs' = onDbChangeCbs \cup Subscribers
    /\ readers' = [readers EXCEPT ![InitReader] = CalledReader]
    /\ UNCHANGED <<now, ignoreNetworkErrors, lastCheckedFile, dbFile, tempFile,
                   rewritePromise, rewritesOpened, rewritesResolved, updateIsRunning,
                   cycles, notifications, handleVars>>

\* Deno.readFile(db.mmdb) of the getDbBuffer call has read the file (or
\* failed); its promise is settled with that later
InitBufferRead(ioError) ==
    /\ readers[InitReader].pc = "reading"
    /\ readers' = [readers EXCEPT ![InitReader] =
            [@ EXCEPT !.pc = "resolved", !.result = GetDbBufferResult(ioError)]]
    /\ UNCHANGED <<now, ignoreNetworkErrors, lastCheckedFile, dbFile, tempFile,
                   rewritePromise, rewritesOpened, rewritesResolved, updateIsRunning,
                   cycles, onDbChangeCbs, notifications, handleVars>>

\* buffer && !this.#db
InitLoadsWhateverIsLoaded(buffer, cur) == buffer # Null

InitLoadGuard(buffer, cur) == buffer # Null /\ cur = NoDb

\* #init is resumed with the buffer, lines 52-55; a getDbBuffer that threw
\* ends #init
InitBufferSettles(freeThrows) ==
    /\ readers[InitReader].pc = "resolved"
    /\ readers' = [readers EXCEPT ![InitReader] =
            [IdleReader EXCEPT !.result = readers[InitReader].result]]
    /\ IF readers[InitReader].result # Threw
            /\ InitLoadGuard(readers[InitReader].result, db)
       THEN LoadDb(readers[InitReader].result, freeThrows)
       ELSE UNCHANGED handleVars
    /\ UNCHANGED <<now, ignoreNetworkErrors, lastCheckedFile, dbFile, tempFile,
                   rewritePromise, rewritesOpened, rewritesResolved, updateIsRunning,
                   cycles, onDbChangeCbs, notifications>>

\* the rename settles and the registered callback calls #loadDb(data.buffer);
\* what #loadDb throws, the callback throws
LiveRenameDone(c, ioError, freeThrows) ==
    /\ InitResumed
    /\ cycles[c].pc = "rename"
    /\ RenameSettles(c, ioError, ~ioError /\ ~MaxmindLoads(cycles[c].dbBuffer))
    /\ IF ioError
       THEN UNCHANGED handleVars
       ELSE LoadDb(cycles[c].dbBuffer, freeThrows)

\* the other steps of a cycle
LiveCycleStep(c) ==
    /\ InitResumed
    /\ \/ \E e \in BOOLEAN : ReadLastCheckedDone(c, e)
       \/ \E e \in BOOLEAN : ReadDbDone(c, e)
       \/ \E ok \in BOOLEAN, t \in HashTexts : FetchShaDone(c, ok, t)
       \/ \E ok \in BOOLEAN, b \in RemoteArchives : DownloadDone(c, ok, b)
       \/ \E e \in BOOLEAN : ExtractDone(c, e)
       \/ \E e \in BOOLEAN : RemoveDone(c, e)
       \/ \E e \in BOOLEAN : WriteLastCheckedDone(c, e)

LiveTick == InitResumed /\ Tick

LiveNext ==
    \/ InitSubscribes
    \/ GetDbBufferPassGate(InitReader)
    \/ \E e \in BOOLEAN : InitBufferRead(e)
    \/ \E f \in BOOLEAN : InitBufferSettles(f)
    \/ LiveTick
    \/ \E c \in CycleIds : LiveCycleStep(c)
    \/ \E c \in CycleIds, e \in BOOLEAN, f \in BOOLEAN : LiveRenameDone(c, e, f)
    \/ \E l \in LiveLookupIds : UseDbCall(l)
    \/ \E l \in LiveLookupIds : UseDbStart(l)
    \/ \E l \in LiveLookupIds, fn \in FnOutcomes, f \in BOOLEAN : UseDbFinish(l, fn, f)

SpecLive == LiveInit /\ [][LiveNext]_vars

\* a fetcher that stays as constructed, for the handle taken alone
FetcherQuiet ==
    /\ FetcherInit
    /\ ~ignoreNetworkErrors
    /\ lastCheckedFile = NotFound
    /\ dbFile = NotFound

HandleNext ==
    \/ \E b \in LoadableBuffers, f \in BOOLEAN : CallLoadDb(b, f)
    \/ \E l \in LookupIds : UseDbCall(l)
    \/ \E l \in LookupIds : UseDbStart(l)
    \/ \E l \in LookupIds, fn \in FnOutcomes, f \in BOOLEAN : UseDbFinish(l, fn, f)

\* the handle taken alone: #loadDb is called by whoever holds the fetcher
HandleAloneInit == HandleInit /\ FetcherQuiet

SpecHandle == HandleAloneInit /\ [][HandleNext]_vars

\* an awaited promise that has resolved is resumed, and a lookup settles
HandleFairness ==
    \A l \in LookupIds :
        /\ WF_vars(UseDbStart(l))
        /\ WF_vars(\E fn \in FnOutcomes, f \in BOOLEAN : UseDbFinish(l, fn, f))

FairSpecHandle == SpecHandle /\ HandleFairness
(***************************************************************************)
(* Properties of the hot-swap handle.                                      *)
(***************************************************************************)
Running(l) == lookups[l].pc = "running"

\* a newer instance has been constructed since d was
Replaced(d) == d < created

Disposed(d) == freeCalls[d] > 0

\* every #loadDb call so far constructed its instance
NoLoadFailed == loadCalls = created

\* in this step free() is called on d
FreedInStep(d) == freeCalls'[d] > freeCalls[d]

C1NotFreedWhileBorrowed ==
    \A d \in Dbs : FreedInStep(d) =>
        \A l \in LookupIds : ~(lookups'[l].pc = "running" /\ lookups'[l].db = d)

C1RunsAgainstResolved ==
    \A l \in LookupIds : Running(l) =>
        /\ lookups[l].db = PromiseValue(lookups[l].promise)
        /\ lookups[l].dbAtCall # NoDb => lookups[l].db = lookups[l].dbAtCall

\* C1: free() is never called on an instance while a lookup that has counted
\* itself on it is still running, whatever loads happen meanwhile, and a
\* running lookup works on the instance its awaited promise resolved to (the
\* one that was #db when it was called, if there was one).
C1_BorrowedNotFreed == [][C1NotFreedWhileBorrowed]_vars /\ []C1RunsAgainstResolved

\* a lookup is running on an instance that has been replaced meanwhile and
\* waits, unfreed, in #discardedDbs
C1_Witness ==
    \E l \in LookupIds :
        /\ Running(l)
        /\ Replaced(lookups[l].db)
        /\ lookups[l].db \in discardedDbs
        /\ ~Disposed(lookups[l].db)

\* C2: no lookup starts its operation on an instance free() has already been
\* called on (stated for the behaviours in which every load succeeded).
C2_NoUseAfterDispose ==
    \A l \in LookupIds : (Running(l) /\ NoLoadFailed) => ~lookups[l].freedAtStart

C3DisposedOnce ==
    /\ \A d \in Dbs : freeCalls[d] <= 1
    /\ db # NoDb => ~Disposed(db)

C3DisposedWhenUnused ==
    \A d \in Dbs : FreedInStep(d) => (d # db' /\ pendingDbLookups'[d] = 0)

\* C3: no instance is freed twice, the instance that is #db is never freed,
\* and an instance is freed only when it is no longer #db and its count is 0.
C3_DisposeDiscipline == []C3DisposedOnce /\ [][C3DisposedWhenUnused]_vars

C4Quiescent ==
    (\A l \in LookupIds : ~Running(l)) =>
        /\ discardedDbs = {}
        /\ \A d \in Dbs : Replaced(d) => Disposed(d)

\* C4: with no lookup running, #discardedDbs is empty and every replaced
\* instance has been freed; and, lookups settling, every replaced instance is
\* eventually freed.
C4_NoLeak ==
    /\ []C4Quiescent
    /\ \A d \in Dbs : Replaced(d) ~> Disposed(d)

\* an instance that was retired with a lookup running on it has been freed
\* by the time nothing runs any more
C4_Witness ==
    /\ \A l \in LookupIds : ~Running(l)
    /\ created = 2
    /\ freeCalls[1] = 1
    /\ pendingDbLookups[1] = 0
    /\ \E l \in LookupIds : lookups[l].pc = "awaiting" /\ lookups[l].dbAtCall = 2

C5Gate ==
    /\ \A l \in LookupIds : Running(l) =>
            (initialPromiseResolved /\ lookups[l].db \in 1..created)
    /\ ~initialPromiseResolved => (db = NoDb /\ PromiseValue(dbPromise) = NoDb)
    /\ initialPromiseResolved => PromiseValue(dbPromise) = db
    /\ \A l \in LookupIds :
            (lookups[l].pc # "idle" /\ lookups[l].dbAtCall # NoDb) =>
                PromiseValue(lookups[l].promise) = lookups[l].dbAtCall

\* C5: no lookup runs before the first instance is loaded; once it is, a
\* lookup waiting on the promise eventually runs; and after the first load
\* #dbPromise resolves to the instance that is #db when it is read.
C5_FirstLoadGate ==
    /\ []C5Gate
    /\ \A l \in LookupIds :
            (lookups[l].pc = "awaiting" /\ initialPromiseResolved) ~> Running(l)

\* a lookup called before the first load is running
C5_Witness ==
    \E l \in LookupIds : Running(l) /\ lookups[l].dbAtCall = NoDb
(***************************************************************************)
(* Properties of the fetcher.                                              *)
(***************************************************************************)
CyclesInFlight == {c \in CycleIds : InFlight(c)}

C6AtMostOne ==
    /\ Cardinality(CyclesInFlight) <= 1
    /\ updateIsRunning <=> CyclesInFlight # {}

\* a timer tick that finds a cycle running changes nothing but the clock, and
\* a cycle starts only in a tick that finds none running
C6Dropped ==
    /\ (updateIsRunning /\ now' # now) =>
            UNCHANGED <<cycles, updateIsRunning, dbFile, tempFile,
                        lastCheckedFile, rewritePromise, notifications>>
    /\ \A c \in CycleIds :
            (~InFlight(c) /\ cycles'[c].pc # "idle") =>
                (now' # now /\ ~updateIsRunning)

\* C6: at most one #updateDb is in flight; a trigger arriving while one runs
\* returns at once, starts nothing and leaves nothing behind to run later.
C6_SingleCycle == []C6AtMostOne /\ [][C6Dropped]_vars

\* a timer tick was dropped while the running cycle waits for its download
C6_Witness ==
    \E c \in CycleIds : cycles[c].pc = "download" /\ cycles[c].startedAt < now

\* getDbBuffer call r returns in this step
Returns(r) == readers[r].pc = "reading" /\ readers'[r].pc = "idle"

C7NotMissing ==
    \A r \in ReaderIds :
        (Returns(r) /\ readers[r].existed /\ ReplaceUnderWay) =>
            readers'[r].result # Null

\* C7: a getDbBuffer call made when an artifact was there never returns null
\* out of the gap between the removal of the old file and the rename of the
\* new one.
C7_ReadNeverMissing == [][C7NotMissing]_vars

InReplace(c) == cycles[c].pc \in {"remove", "rename"}

C8Closed ==
    /\ (\A c \in CycleIds : ~InReplace(c)) =>
            (rewritePromise = 0 /\ rewritesResolved = 1..rewritesOpened)
    /\ \A r \in ReaderIds :
            (readers[r].pc = "gate" /\ readers[r].awaited # 0
                /\ readers[r].awaited \notin rewritesResolved) =>
                    \E c \in CycleIds : InReplace(c) /\ cycles[c].rewrite = readers[r].awaited

\* C8: whenever no replace is under way, however the last one ended,
\* #rewritePromise is null and every rewrite promise made has been resolved;
\* a getDbBuffer call waiting on one eventually goes on.
C8_WindowCloses ==
    /\ []C8Closed
    /\ \A r \in ReaderIds : (readers[r].pc = "gate") ~> (readers[r].pc # "gate")

\* a replace failed, and the reader that waited on its promise has gone on
C8_Witness ==
    \E c \in CycleIds, r \in ReaderIds :
        /\ cycles[c].pc = "idle"
        /\ cycles[c].windowOpened
        /\ cycles[c].outcome.kind = "FilesystemError"
        /\ readers[r].awaited = cycles[c].rewrite
        /\ readers[r].pc = "reading"
        /\ dbFile = NotFound

DigestMismatch(c) ==
    /\ cycles[c].tarBuffer # Null
    /\ GetSha256FromBuffer(cycles[c].tarBuffer) # cycles[c].serverSha256

\* C9: a cycle whose downloaded bytes do not hash to the digest it fetched
\* ends with the verification error; db.mmdb is what it was when the cycle
\* started, no rewrite promise was made and no callback was called.
C9_IntegrityFailure ==
    \A c \in CycleIds : DigestMismatch(c) =>
        /\ cycles[c].pc = "idle"
        /\ cycles[c].outcome.kind = "IntegrityError"
        /\ dbFile = cycles[c].dbAtStart
        /\ ~cycles[c].windowOpened
        /\ cycles[c].notified = 0
        /\ cycles[c].rewrite = 0

\* a cycle over an existing artifact has ended in the verification error
C9_Witness ==
    \E c \in CycleIds :
        /\ DigestMismatch(c)
        /\ cycles[c].outcome.kind = "IntegrityError"
        /\ cycles[c].dbAtStart # NotFound
        /\ onDbChangeCbs # {}

DigestsEqual(c) ==
    cycles[c].fetched /\ cycles[c].serverSha256 = cycles[c].localSha256

\* C10: a cycle that fetched a digest equal to the local one requests no
\* download, leaves db.mmdb alone, makes no rewrite promise, calls no
\* callback, and goes on to write lastChecked.txt with the time of the write.
C10_NoChangeNeeded ==
    \A c \in CycleIds : DigestsEqual(c) =>
        /\ ~cycles[c].downloadRequested
        /\ cycles[c].tarBuffer = Null
        /\ dbFile = cycles[c].dbAtStart
        /\ ~cycles[c].windowOpened
        /\ cycles[c].notified = 0
        /\ cycles[c].pc \in {"writeLastChecked", "idle"}
        /\ cycles[c].writeValue \in cycles[c].startedAt..now
        /\ cycles[c].pc = "idle" => cycles[c].outcome.kind \in {"ok", "FilesystemError"}
        /\ cycles[c].outcome.kind = "ok" =>
                lastCheckedFile = DateNowString(cycles[c].writeValue)

\* such a cycle has written its checkpoint, later than the one it read
C10_Witness ==
    \E c \in CycleIds :
        /\ DigestsEqual(c)
        /\ cycles[c].outcome.kind = "ok"
        /\ cycles[c].lastCheckedAtStart = Digits(0)
        /\ lastCheckedFile = Digits(cycles[c].writeValue)
        /\ onDbChangeCbs # {}

C11CallbackSeesCommitted ==
    \A i \in 1..Len(notifications) :
        /\ notifications[i].buffer # Null
        /\ notifications[i].dbFile = notifications[i].buffer
        /\ notifications[i].rewritePromise = 0

C11AfterCommit ==
    notifications' # notifications =>
        \E c \in CycleIds :
            /\ cycles[c].pc = "rename"
            /\ cycles'[c].pc # "rename"
            /\ dbFile' = cycles[c].dbBuffer
            /\ tempFile' = NotFound
            /\ cycles[c].rewrite \in rewritesResolved'
            /\ rewritePromise' = 0

\* cycle c ended in a failure of Deno.remove or Deno.rename: it opened the
\* window and threw before the write of lastChecked.txt was issued
ReplaceFailed(c) ==
    /\ cycles[c].windowOpened
    /\ cycles[c].outcome.kind = "FilesystemError"
    /\ cycles[c].writeValue = 0

C11NoneOnFailure ==
    \A c \in CycleIds : ReplaceFailed(c) => cycles[c].notified = 0

\* C11: a subscriber is called only in the step in which the rename has
\* succeeded and the rewrite promise has been resolved and cleared; a cycle
\* whose replace failed calls none; and what a callback finds in db.mmdb is
\* the buffer it is passed.
C11_NotifyAfterCommit ==
    /\ []C11CallbackSeesCommitted
    /\ [][C11AfterCommit]_vars
    /\ []C11NoneOnFailure

\* a subscriber was called over an artifact that replaced an older one, and
\* another cycle's replace has failed with the subscriber registered
C11_Witness ==
    /\ Len(notifications) > 0
    /\ notifications[1].buffer = Mmdb(2)
    /\ \E c \in CycleIds :
        /\ ReplaceFailed(c)
        /\ cycles[c].dbAtStart = Mmdb(2)
        /\ onDbChangeCbs # {}

\* C12: with ignoreNetworkErrors set, no cycle ends in a network error,
\* whether the request that failed was the one for the digest or the one for
\* the archive: the cycle ends silently, with db.mmdb and lastChecked.txt as
\* they were when it started.
C12_NetworkErrorsSwallowed ==
    ignoreNetworkErrors =>
        \A c \in CycleIds :
            /\ cycles[c].outcome.kind # "NetworkError"
            /\ cycles[c].outcome.kind = "aborted" =>
                    /\ dbFile = cycles[c].dbAtStart
                    /\ lastCheckedFile = cycles[c].lastCheckedAtStart

\* the content of lastChecked.txt is no number, or a number more than
\* HASH_CHECK_UPDATE_INTERVAL_MS before t
CheckpointStale(content, t) ==
    \/ content = NotFound
    \/ content = Garbage
    \/ (content[1] = "digits" /\ t - content[2] > HASH_CHECK_UPDATE_INTERVAL_MS)

\* cycle c has asked for the remote digest, or gone further
AskedRemote(c) ==
    \/ cycles[c].pc \in {"fetchSha", "download", "extract", "remove", "rename"}
    \/ cycles[c].fetched
    \/ cycles[c].downloadRequested
    \/ cycles[c].tarBuffer # Null
    \/ cycles[c].outcome.kind \in {"aborted", "NetworkError"}

C13AtGate ==
    \A c \in CycleIds :
        (cycles[c].pc = "readDb" /\ cycles'[c].pc \notin {"readDb", "idle"}) =>
            /\ cycles'[c].pc = "fetchSha" <=>
                    CheckpointStale(cycles[c].lastCheckedAtStart, now)
            /\ cycles'[c].pc = "writeLastChecked" <=>
                    ~CheckpointStale(cycles[c].lastCheckedAtStart, now)

C13OnlyWhenStale ==
    \A c \in CycleIds :
        AskedRemote(c) => CheckpointStale(cycles[c].lastCheckedAtStart, now)

NoMmdbEntry(c) ==
    /\ cycles[c].tarBuffer # Null
    /\ GetSha256FromBuffer(cycles[c].tarBuffer) = cycles[c].serverSha256
    /\ \A i \in 1..Len(TarEntries(cycles[c].tarBuffer)) :
            TarEntries(cycles[c].tarBuffer)[i].path.ext # "mmdb"

\* C14: a cycle whose verified archive has no .mmdb entry ends in the error
\* that lists the entry names seen; db.mmdb and lastChecked.txt are what they
\* were when the cycle started, no rewrite promise is made and no callback is
\* called.
C14_NoArtifactInArchive ==
    \A c \in CycleIds : NoMmdbEntry(c) =>
        /\ cycles[c].pc \in {"extract", "idle"}
        /\ cycles[c].pc = "idle" =>
                /\ cycles[c].outcome.kind = "FormatError"
                /\ cycles[c].outcome.entryNames =
                        <<[stem |-> "GeoLite2-Country", ext |-> "csv"]>>
        /\ dbFile = cycles[c].dbAtStart
        /\ lastCheckedFile = cycles[c].lastCheckedAtStart
        /\ cycles[c].writeValue = 0
        /\ ~cycles[c].windowOpened
        /\ cycles[c].rewrite = 0
        /\ cycles[c].notified = 0
        /\ cycles[c].dbBuffer = Null

\* a cycle over an existing artifact, with a subscriber registered, has ended
\* in that error
C14_Witness ==
    \E c \in CycleIds :
        /\ NoMmdbEntry(c)
        /\ cycles[c].outcome.kind = "FormatError"
        /\ cycles[c].dbAtStart = Mmdb(1)
        /\ onDbChangeCbs # {}

OutcomeKinds ==
    {"ok", "aborted", "NetworkError", "IntegrityError", "FormatError",
     "FilesystemError", "CallbackError"}

\* cycle c ends in this step
Ends(c) == InFlight(c) /\ cycles'[c].pc = "idle"

C15ClearedAtEnd ==
    \A c \in CycleIds : Ends(c) =>
        /\ cycles'[c].outcome.kind \in OutcomeKinds
        /\ ~updateIsRunning'

C15NextTriggerStarts ==
    (now' # now /\ CyclesInFlight = {}) =>
        \E c \in CycleIds : cycles'[c].pc = "readLastChecked" /\ cycles'[c].startedAt = now'

C15NeverStuck == updateIsRunning => CyclesInFlight # {}

\* C15: however a cycle ends, #updateIsRunning is false in the state it ends
\* in, the flag is never set with no cycle in flight, and a timer tick that
\* finds no cycle in flight starts one.
C15_GuardCleared ==
    /\ [][C15ClearedAtEnd]_vars
    /\ [][C15NextTriggerStarts]_vars
    /\ []C15NeverStuck

\* a cycle has been started by the timer after the one before it ended in
\* an error
C15_Witness ==
    \E c \in CycleIds :
        /\ InFlight(c)
        /\ cycles[c].startedAt > StartNow
        /\ cycles[c].lastCheckedAtStart = NotFound
        /\ cycles[c].dbAtStart = Mmdb(2)

\* lookup l settles in this step
Settles(l) == Running(l) /\ lookups'[l].pc = "idle"

C16LookupKeepsOutcome ==
    \A l \in LookupIds : (Settles(l) /\ freeThrew'.in = "useDb") =>
        LET d == lookups[l].db
        IN  /\ FreedInStep(d)
            /\ freeThrew'.result = freeThrew'.fn
            /\ freeThrew'.result \in FnOutcomes
            /\ pendingDbLookups'[d] = pendingDbLookups[d] - 1
            /\ d \in discardedDbs
            /\ d \notin discardedDbs'

C16LoadPublishes ==
    freeThrew'.in = "loadDb" =>
        /\ loadCalls' = loadCalls + 1
        /\ FreedInStep(db)
        /\ created' = created + 1
        /\ db' = created'
        /\ dbPromise' = IF initialPromiseResolved THEN db' ELSE dbPromise

\* C16: what db.free() throws goes no further than #tryFreeDb.  A lookup
\* whose finally block frees its retired instance settles as its own fn(db)
\* did, with the count decremented and the instance out of #discardedDbs;
\* and a #loadDb whose free() of the previous instance throws still
\* constructs and publishes the new one.
C16_DisposalFailureContained ==
    [][C16LookupKeepsOutcome]_vars /\ [][C16LoadPublishes]_vars

\* free() has just thrown in the finally block of a lookup whose own
\* operation threw; the lookup has thrown that, and the retired instance is
\* out of #discardedDbs
C16_Witness ==
    /\ freeThrew.in = "useDb"
    /\ freeThrew.fn = "threw"
    /\ freeThrew.result = "threw"
    /\ discardedDbs = {}
    /\ created = 2
    /\ freeCalls[1] = 1
    /\ pendingDbLookups[1] = 0

\* a cycle that asked for the remote digest has completed
FetchedAndDone ==
    \E c \in CycleIds :
        cycles[c].pc = "idle" /\ cycles[c].fetched /\ cycles[c].outcome.kind = "ok"

\* a cycle is asking for the remote digest
Fetching == \E c \in CycleIds : cycles[c].pc = "fetchSha"

\* C17: with the timer starting a cycle every TIME_CHECK_UPDATE_INTERVAL_MS
\* and every cycle completing, a cycle that has asked for the remote digest
\* is eventually followed by one that asks for it again.
C17_RecheckedAgain == FetchedAndDone ~> Fetching

\* db.mmdb, as cycle c found it, is the entry an earlier cycle extracted
\* from archive a and committed (no other way leads to that content), and
\* the digest cycle c fetched is the digest of a: the remote is unchanged
SyncedWith(c, a) ==
    /\ cycles[c].fetched
    /\ cycles[c].dbAtStart # NotFound
    /\ cycles[c].dbAtStart = ExtractMmdb(TarEntries(a))
    /\ cycles[c].serverSha256 = GetSha256FromBuffer(a)

\* C18: a cycle that fetches the digest of the archive whose entry is
\* already committed as db.mmdb requests no download and opens no replace.
C18_SyncIdempotent ==
    \A c \in CycleIds, a \in RemoteArchives :
        SyncedWith(c, a) =>
            /\ ~cycles[c].downloadRequested
            /\ cycles[c].tarBuffer = Null
            /\ ~cycles[c].windowOpened

\* this step is a #loadDb call that constructed no instance
LoadFails == loadCalls' = loadCalls + 1 /\ created' = created

C19FailedLoadKeepsCurrent ==
    LoadFails =>
        /\ db' = db
        /\ freeCalls' = freeCalls
        /\ discardedDbs' = discardedDbs

C19DisposedOnceLater ==
    \A d \in Dbs : (d < created /\ d \notin discardedDbs) => freeCalls[d] = 1

\* C19: a #loadDb whose buffer does not load leaves the current instance
\* current, not freed and not in #discardedDbs; and an instance replaced by
\* a later successful load, once out of #discardedDbs, has been freed
\* exactly once.
C19_FailedLoadKeepsVersion ==
    [][C19FailedLoadKeepsCurrent]_vars /\ []C19DisposedOnceLater

(***************************************************************************)
(* Properties of LiveMaxMindDb over its fetcher.                           *)
(***************************************************************************)
\* #init is resumed with the buffer in this step
InitSettles == readers[InitReader].pc = "resolved" /\ readers'[InitReader].pc = "idle"

\* in this step a subscriber is called
Notifies == Len(notifications') > Len(notifications)

C20LoadedOnlyWhenNoneLoaded ==
    InitSettles =>
        /\ db # NoDb => UNCHANGED <<db, dbPromise, created, loadCalls, freeCalls,
                                    discardedDbs>>
        /\ (db = NoDb /\ readers[InitReader].result \notin {Null, Threw}) =>
                (loadCalls' = loadCalls + 1 /\ db' = created' /\ created' = created + 1)

C20ReplacedByNotificationOnly ==
    (db # NoDb /\ db' # db) => (Notifies /\ ~InitSettles)

C20NotificationLoads == Notifies => (created' = created + 1 /\ db' = created')

C20SubscribedBeforeCommit ==
    /\ \A c \in CycleIds :
            (cycles[c].windowOpened /\ cycles[c].pc = "writeLastChecked") =>
                (cycles[c].notified = 1 /\ db # NoDb)
    /\ (\E c \in CycleIds : \/ cycles[c].pc \notin {"idle", "readLastChecked"}
                            \/ cycles[c].outcome.kind # "none"
                            \/ cycles[c].startedAt > StartNow) => InitResumed

\* C20: #init loads the buffer it read from disk only when no instance is
\* loaded at the moment it is resumed with it, so an instance loaded by a
\* change notification is replaced by a later notification only, never by
\* the buffer read at start-up; and the callback is registered before the
\* first cycle has taken a step, so every commit is followed by a load.
C20_InitialLoadGuarded ==
    /\ [][C20LoadedOnlyWhenNoneLoaded]_vars
    /\ [][C20ReplacedByNotificationOnly]_vars
    /\ [][C20NotificationLoads]_vars
    /\ []C20SubscribedBeforeCommit

\* #init has been resumed with the older buffer it read from disk, after the
\* first cycle replaced db.mmdb and its notification loaded the new one; the
\* instance loaded by the notification is still the current one
C20_Witness ==
    /\ readers[InitReader].pc = "idle"
    /\ readers[InitReader].result = Mmdb(1)
    /\ dbFile = Mmdb(2)
    /\ Len(notifications) = 1
    /\ db = 1
    /\ loadCalls = 1
====
